---- MODULE Spec2Model ----
(***************************************************************************)
(* Model of the wordle-api server (src/src/main.rs).                       *)
(*                                                                         *)
(*  - Spec     : the game lifecycle.  Worker threads of the rouille server *)
(*               run handle_new_game and handle_play against the `game`    *)
(*               table.  handle_play touches the table twice (the SELECT   *)
(*               and the UPDATE); the two statements of one request are    *)
(*               separate steps, so requests on one game may interleave.   *)
(*  - SpecEval : the match engine evaluate_guess on its own, started from  *)
(*               every secret / guess pair of bounded length, run pass by  *)
(*               pass.                                                     *)
(***************************************************************************)
EXTENDS Integers, Sequences, FiniteSets, TLC

(***************************************************************************)
(* Bounds                                                                  *)
(***************************************************************************)
\* requests (create + play) answered or in flight in one run
MaxRequests == 4
\* longest secret / guess given to the match engine in SpecEval
MaxLen == 3

(***************************************************************************)
(* Characters and words                                                    *)
(***************************************************************************)
Letters == {"a", "b"}
\* a sentinel taken from the alphabet of the words
SentinelIsLetter == "a"
\* the character evaluate_guess writes over a consumed secret character
Sentinel == "_"
Chars == Letters \cup {Sentinel}

\* all character sequences of length exactly n over S
SeqsOfLen(S, n) == [1..n -> S]

\* words::FILE_CONTENT, the valid-guess vocabulary: words of one fixed length
words == {<<"a", "b">>, <<"b", "a">>}
\* answers::FILE_CONTENT, the candidate secret words
answers == {<<"a", "b">>, <<"b", "a">>}
\* guess texts a client may put in the URL: the vocabulary, a text of the right
\* length outside it, a shorter and a longer text
GuessTexts == words \cup {<<"b", "b">>, <<"a">>, <<"a", "b", "a">>}
Clients == {"c1"}
Threads == {"t1", "t2"}
\* the game identifiers a run uses (Uuid values)
GameIds == {1, 2}

\* Option<T>
None == {}
Some(x) == {x}

(***************************************************************************)
(* State                                                                   *)
(***************************************************************************)
VARIABLES
    store,      \* the game table: game_id -> [client, word, goes, solved]
    pc,         \* per worker thread: "idle" or "loaded" (between SELECT and UPDATE)
    req,        \* per worker thread: the request in flight [game_id, guess]
    game,       \* per worker thread: the Game read by the SELECT
    responses,  \* the responses sent so far, in order
    secret,     \* SpecEval: the word of the Game given to evaluate_guess
    guessIn,    \* SpecEval: the guess given to evaluate_guess
    ev,         \* SpecEval: locals of evaluate_guess
    phase,      \* SpecEval: position in evaluate_guess
    result      \* SpecEval: the Answer returned

vars == <<store, pc, req, game, responses, secret, guessIn, ev, phase, result>>
lifeVars == <<store, pc, req, game, responses>>
evalVars == <<secret, guessIn, ev, phase, result>>

(***************************************************************************)
(* Match engine: evaluate_guess                                            *)
(***************************************************************************)
\* struct Game as read from a row
Game(word, goes, solved) == [word |-> word, goes |-> goes, solved |-> solved]

\* struct CharMatch; index is the 0-based position in the guess
CharMatch(index, character, match_type) ==
    [index |-> index, character |-> character, match_type |-> match_type]

\* locals whose CharMatch entries count positions from 1
EvalInitOneBased(g, guess) ==
    [guess_chars_used |-> [i \in 1..Len(guess) |-> FALSE],
     word_chars       |-> g.word,
     evaluation       |-> [i \in 1..Len(guess) |-> CharMatch(i, guess[i], "None")],
     panicked         |-> FALSE]

\* the three locals built before the passes; panicked records an out-of-range index
EvalInit(g, guess) ==
    [guess_chars_used |-> [i \in 1..Len(guess) |-> FALSE],
     word_chars       |-> g.word,
     evaluation       |-> [i \in 1..Len(guess) |-> CharMatch(i - 1, guess[i], "None")],
     panicked         |-> FALSE]

\* a search that starts at the second character
PositionSkipFirst(word_chars, c) ==
    LET hits == {j \in 2..Len(word_chars) : word_chars[j] = c}
    IN IF hits = {} THEN 0 ELSE CHOOSE j \in hits : \A k \in hits : j <= k

\* word_chars.iter().position(|&x| x == c): first index holding c, 0 for no index
Position(word_chars, c) ==
    LET hits == {j \in 1..Len(word_chars) : word_chars[j] = c}
    IN IF hits = {} THEN 0 ELSE CHOOSE j \in hits : \A k \in hits : j <= k

\* Pass1Step that leaves the matched secret character in the pool
Pass1StepNoConsume(st, guess, i) ==
    IF st.panicked THEN st
    ELSE IF i > Len(st.word_chars) THEN [st EXCEPT !.panicked = TRUE]
    ELSE IF st.word_chars[i] = guess[i]
         THEN [st EXCEPT !.evaluation[i] = CharMatch(i - 1, guess[i], "Perfect"),
                         !.guess_chars_used[i] = TRUE]
         ELSE st

\* a single pass: a position that is no perfect match is matched partially at once
Pass1StepOnePass(st, guess, i) ==
    IF st.panicked THEN st
    ELSE IF i > Len(st.word_chars) THEN [st EXCEPT !.panicked = TRUE]
    ELSE IF st.word_chars[i] = guess[i]
         THEN [st EXCEPT !.evaluation[i] = CharMatch(i - 1, guess[i], "Perfect"),
                         !.word_chars[i] = Sentinel,
                         !.guess_chars_used[i] = TRUE]
         ELSE LET word_index == Position(st.word_chars, guess[i])
              IN IF word_index # 0
                 THEN [st EXCEPT !.evaluation[i] = CharMatch(i - 1, guess[i], "Partial"),
                                 !.word_chars[word_index] = Sentinel,
                                 !.guess_chars_used[i] = TRUE]
                 ELSE st

\* body of the first for_each closure at guess position i (1-based here)
Pass1Step(st, guess, i) ==
    IF st.panicked THEN st
    ELSE IF i > Len(st.word_chars) THEN [st EXCEPT !.panicked = TRUE]
    ELSE IF st.word_chars[i] = guess[i]
         THEN [st EXCEPT !.evaluation[i] = CharMatch(i - 1, guess[i], "Perfect"),
                         !.word_chars[i] = Sentinel,
                         !.guess_chars_used[i] = TRUE]
         ELSE st

\* Pass2Step that leaves the matched secret character in the pool
Pass2StepNoConsume(st, guess, i) ==
    IF st.panicked \/ st.guess_chars_used[i] THEN st
    ELSE LET word_index == Position(st.word_chars, guess[i])
         IN IF word_index # 0
            THEN [st EXCEPT !.evaluation[i] = CharMatch(i - 1, guess[i], "Partial"),
                            !.guess_chars_used[i] = TRUE]
            ELSE st

\* Pass2Step that does not skip the positions pass 1 matched
Pass2StepNoSkip(st, guess, i) ==
    IF st.panicked THEN st
    ELSE LET word_index == Position(st.word_chars, guess[i])
         IN IF word_index # 0
            THEN [st EXCEPT !.evaluation[i] = CharMatch(i - 1, guess[i], "Partial"),
                            !.word_chars[word_index] = Sentinel,
                            !.guess_chars_used[i] = TRUE]
            ELSE st

\* body of the second for_each closure at guess position i
Pass2Step(st, guess, i) ==
    IF st.panicked \/ st.guess_chars_used[i] THEN st
    ELSE LET word_index == Position(st.word_chars, guess[i])
         IN IF word_index # 0
            THEN [st EXCEPT !.evaluation[i] = CharMatch(i - 1, guess[i], "Partial"),
                            !.word_chars[word_index] = Sentinel,
                            !.guess_chars_used[i] = TRUE]
            ELSE st

RECURSIVE Pass1From(_, _, _)
Pass1From(st, guess, i) ==
    IF i > Len(guess) THEN st ELSE Pass1From(Pass1Step(st, guess, i), guess, i + 1)

RECURSIVE Pass2From(_, _, _)
Pass2From(st, guess, i) ==
    IF i > Len(guess) THEN st ELSE Pass2From(Pass2Step(st, guess, i), guess, i + 1)

\* "find the perfect matches"
Pass1(st, guess) == Pass1From(st, guess, 1)
\* "find the partial matches"
Pass2(st, guess) == Pass2From(st, guess, 1)

\* an Answer whose solved flag is read off the classifications: no position None
MakeAnswerSolvedNoAbsent(g, guess, evaluation) ==
    LET done == \A i \in 1..Len(evaluation) : evaluation[i].match_type # "None"
    IN [solved     |-> done,
        answer     |-> IF done THEN Some(g.word) ELSE None,
        guess      |-> guess,
        goes       |-> g.goes + 1,
        evaluation |-> evaluation]

\* an Answer that always carries the word
MakeAnswerAlwaysReveals(g, guess, evaluation) ==
    [solved     |-> g.word = guess,
     answer     |-> Some(g.word),
     guess      |-> guess,
     goes       |-> g.goes + 1,
     evaluation |-> evaluation]

\* the Answer built at the end of evaluate_guess
MakeAnswer(g, guess, evaluation) ==
    [solved     |-> g.word = guess,
     answer     |-> IF g.word = guess THEN Some(g.word) ELSE None,
     guess      |-> guess,
     goes       |-> g.goes + 1,
     evaluation |-> evaluation]

\* evaluate_guess(game, guess): the Answer, or a panic on an out-of-range index
evaluate_guess(g, guess) ==
    LET st == Pass2(Pass1(EvalInit(g, guess), guess), guess)
    IN [panicked |-> st.panicked,
        answer   |-> MakeAnswer(g, guess, st.evaluation)]

(***************************************************************************)
(* Game lifecycle: handle_new_game and handle_play                         *)
(***************************************************************************)
\* the row INSERTed by handle_new_game; solved takes the column default 0
NewGameRow(client, word) ==
    [client |-> client, word |-> word, goes |-> 0, solved |-> FALSE]

\* Uuid::new_v4(): an identifier no stored game has (ids are handed out in order)
NewGameId == Cardinality(DOMAIN store) + 1

\* the SELECT of handle_play: Some(Game) for a stored game_id, None for an Err
SelectGame(game_id) ==
    IF game_id \in DOMAIN store
    THEN Some(Game(store[game_id].word, store[game_id].goes, store[game_id].solved))
    ELSE None

\* a vocabulary check that accepts every text
IsValidGuessAny(guess) == TRUE

\* a vocabulary check by substring: some word holds the text as a substring
IsValidGuessSubstring(guess) ==
    \E w \in words : \E k \in 0..(Len(w) - Len(guess)) :
        \A i \in 1..Len(guess) : w[k + i] = guess[i]

\* words.contains(&guess)
IsValidGuess(guess) == guess \in words

\* handle_play checking the vocabulary before the solved flag
PlayBranchGuessBeforeSolved(game_result, guess) ==
    IF game_result = None THEN "NotFound"
    ELSE LET g == CHOOSE x \in game_result : TRUE
         IN IF ~IsValidGuess(guess) THEN "InvalidGuess"
            ELSE IF g.solved THEN "Solved"
            ELSE "Evaluate"

\* handle_play checking the vocabulary before the SELECT result
PlayBranchGuessFirst(game_result, guess) ==
    IF ~IsValidGuess(guess) THEN "InvalidGuess"
    ELSE IF game_result = None THEN "NotFound"
    ELSE LET g == CHOOSE x \in game_result : TRUE
         IN IF g.solved THEN "Solved" ELSE "Evaluate"

\* the early returns of handle_play after the SELECT, in the order of the code
PlayBranch(game_result, guess) ==
    IF game_result = None THEN "NotFound"
    ELSE LET g == CHOOSE x \in game_result : TRUE
         IN IF g.solved THEN "Solved"
            ELSE IF ~IsValidGuess(guess) THEN "InvalidGuess"
            ELSE "Evaluate"

\* the Answer of the already-solved branch
SolvedAnswer(g, guess) ==
    [solved     |-> TRUE,
     answer     |-> Some(g.word),
     guess      |-> guess,
     goes       |-> g.goes,
     evaluation |-> <<>>]

\* an UPDATE writing the count computed from the Game read earlier
UpdateRowFromRead(row, answer) ==
    [row EXCEPT !.goes = answer.goes, !.solved = answer.solved]

\* an UPDATE that counts a guess only when it does not solve the game
UpdateRowNoCountOnSolve(row, answer) ==
    [row EXCEPT !.goes = IF answer.solved THEN @ ELSE @ + 1,
                !.solved = answer.solved]

\* UPDATE game SET goes = goes + 1, solved = ?1 on one row
UpdateRow(row, answer) ==
    [row EXCEPT !.goes = @ + 1, !.solved = answer.solved]

\* an UPDATE without its WHERE clause
UpdateGameAllRows(game_id, answer) ==
    [id \in DOMAIN store |-> UpdateRow(store[id], answer)]

\* UPDATE ... WHERE game_id = ?2 on the table
UpdateGame(game_id, answer) ==
    [id \in DOMAIN store |->
        IF id = game_id THEN UpdateRow(store[id], answer) ELSE store[id]]

\* a response as the client sees it
Response(kind, status, game_id, guess, body) ==
    [kind |-> kind, status |-> status, game_id |-> game_id, guess |-> guess,
     body |-> body]

InFlight == {t \in Threads : pc[t] = "loaded"}
CanAccept(t) ==
    /\ pc[t] = "idle"
    /\ Len(responses) + Cardinality(InFlight) < MaxRequests

NoRequest == [game_id |-> 0, guess |-> <<>>]
NoGame == Game(<<>>, 0, FALSE)

\* GET /create/{client}
handle_new_game(t, client, word) ==
    /\ CanAccept(t)
    /\ NewGameId \in GameIds
    /\ word \in answers
    /\ store' = store @@ (NewGameId :> NewGameRow(client, word))
    /\ responses' = Append(responses,
            Response("Created", 200, NewGameId, <<>>, [game_id |-> NewGameId]))
    /\ UNCHANGED <<pc, req, game, evalVars>>

\* GET /play/{game_id}/guess/{guess}: the SELECT fails, 404
PlayNotFound(t, game_id, guess) ==
    /\ CanAccept(t)
    /\ PlayBranch(SelectGame(game_id), guess) = "NotFound"
    /\ responses' = Append(responses,
            Response("NotFound", 404, game_id, guess, None))
    /\ UNCHANGED <<store, pc, req, game, evalVars>>

\* the game read is solved: answer without evaluating
PlaySolved(t, game_id, guess) ==
    /\ CanAccept(t)
    /\ PlayBranch(SelectGame(game_id), guess) = "Solved"
    /\ LET g == CHOOSE x \in SelectGame(game_id) : TRUE
       IN responses' = Append(responses,
            Response("Solved", 200, game_id, guess, SolvedAnswer(g, guess)))
    /\ UNCHANGED <<store, pc, req, game, evalVars>>

\* the guess is not in the vocabulary, 400
PlayInvalid(t, game_id, guess) ==
    /\ CanAccept(t)
    /\ PlayBranch(SelectGame(game_id), guess) = "InvalidGuess"
    /\ responses' = Append(responses,
            Response("InvalidGuess", 400, game_id, guess, None))
    /\ UNCHANGED <<store, pc, req, game, evalVars>>

\* the game read is unsolved and the guess valid: go on to evaluate and UPDATE
PlayLoad(t, game_id, guess) ==
    /\ CanAccept(t)
    /\ PlayBranch(SelectGame(game_id), guess) = "Evaluate"
    /\ pc' = [pc EXCEPT ![t] = "loaded"]
    /\ req' = [req EXCEPT ![t] = [game_id |-> game_id, guess |-> guess]]
    /\ game' = [game EXCEPT ![t] = CHOOSE x \in SelectGame(game_id) : TRUE]
    /\ UNCHANGED <<store, responses, evalVars>>

\* evaluate_guess on the Game read earlier, then the UPDATE and the response;
\* a panic in evaluate_guess ends the request before the UPDATE
PlayUpdate(t) ==
    /\ pc[t] = "loaded"
    /\ LET r == evaluate_guess(game[t], req[t].guess)
       IN IF r.panicked
          THEN /\ store' = store
               /\ responses' = Append(responses,
                    Response("Panic", 500, req[t].game_id, req[t].guess, None))
          ELSE /\ store' = UpdateGame(req[t].game_id, r.answer)
               /\ responses' = Append(responses,
                    Response("Evaluated", 200, req[t].game_id, req[t].guess, r.answer))
    /\ pc' = [pc EXCEPT ![t] = "idle"]
    /\ req' = [req EXCEPT ![t] = NoRequest]
    /\ game' = [game EXCEPT ![t] = NoGame]
    /\ UNCHANGED evalVars

\* the UPDATE returns an Err (the database is locked by another connection,
\* an I/O error): .unwrap() panics, nothing is written, the request is not
\* retried and the server answers for the panicked handler
PlayUpdateFails(t) ==
    /\ pc[t] = "loaded"
    /\ ~evaluate_guess(game[t], req[t].guess).panicked
    /\ responses' = Append(responses,
            Response("StoragePanic", 500, req[t].game_id, req[t].guess, None))
    /\ pc' = [pc EXCEPT ![t] = "idle"]
    /\ req' = [req EXCEPT ![t] = NoRequest]
    /\ game' = [game EXCEPT ![t] = NoGame]
    /\ UNCHANGED <<store, evalVars>>

EvalIdle ==
    /\ secret = <<>>
    /\ guessIn = <<>>
    /\ ev = EvalInit(NoGame, <<>>)
    /\ phase = <<"idle", 1>>
    /\ result = None

Init ==
    /\ store = <<>>
    /\ pc = [t \in Threads |-> "idle"]
    /\ req = [t \in Threads |-> NoRequest]
    /\ game = [t \in Threads |-> NoGame]
    /\ responses = <<>>
    /\ EvalIdle

NewGame == \E t \in Threads, c \in Clients, w \in answers : handle_new_game(t, c, w)
NotFound == \E t \in Threads, g \in GameIds, x \in GuessTexts : PlayNotFound(t, g, x)
Solved == \E t \in Threads, g \in GameIds, x \in GuessTexts : PlaySolved(t, g, x)
Invalid == \E t \in Threads, g \in GameIds, x \in GuessTexts : PlayInvalid(t, g, x)
Load == \E t \in Threads, g \in GameIds, x \in GuessTexts : PlayLoad(t, g, x)
Update == \E t \in Threads : PlayUpdate(t)
UpdateFails == \E t \in Threads : PlayUpdateFails(t)

Next == NewGame \/ NotFound \/ Solved \/ Invalid \/ Load \/ Update \/ UpdateFails

Spec == Init /\ [][Next]_vars

(***************************************************************************)
(* The match engine run on its own                                         *)
(***************************************************************************)
\* the Game handed to evaluate_guess
EvalGame == Game(secret, 0, FALSE)

EvalBegin ==
    /\ phase[1] = "start"
    /\ ev' = EvalInit(EvalGame, guessIn)
    /\ phase' = <<"pass1", 1>>
    /\ UNCHANGED <<secret, guessIn, result, lifeVars>>

EvalPass1 ==
    /\ phase[1] = "pass1"
    /\ phase[2] <= Len(guessIn)
    /\ ev' = Pass1Step(ev, guessIn, phase[2])
    /\ phase' = <<"pass1", phase[2] + 1>>
    /\ UNCHANGED <<secret, guessIn, result, lifeVars>>

EvalPass1End ==
    /\ phase[1] = "pass1"
    /\ phase[2] > Len(guessIn)
    /\ phase' = <<"pass2", 1>>
    /\ UNCHANGED <<secret, guessIn, ev, result, lifeVars>>

EvalPass2 ==
    /\ phase[1] = "pass2"
    /\ phase[2] <= Len(guessIn)
    /\ ev' = Pass2Step(ev, guessIn, phase[2])
    /\ phase' = <<"pass2", phase[2] + 1>>
    /\ UNCHANGED <<secret, guessIn, result, lifeVars>>

EvalReturn ==
    /\ phase[1] = "pass2"
    /\ phase[2] > Len(guessIn)
    /\ result' = Some(MakeAnswer(EvalGame, guessIn, ev.evaluation))
    /\ phase' = <<"done", 1>>
    /\ UNCHANGED <<secret, guessIn, ev, lifeVars>>

InitEval ==
    /\ store = <<>>
    /\ pc = [t \in Threads |-> "idle"]
    /\ req = [t \in Threads |-> NoRequest]
    /\ game = [t \in Threads |-> NoGame]
    /\ responses = <<>>
    /\ \E n \in 0..MaxLen :
        /\ secret \in SeqsOfLen(Chars, n)
        /\ guessIn \in SeqsOfLen(Chars, n)
    /\ ev = EvalInit(NoGame, <<>>)
    /\ phase = <<"start", 1>>
    /\ result = None

NextEval == EvalBegin \/ EvalPass1 \/ EvalPass1End \/ EvalPass2 \/ EvalReturn

SpecEval == InitEval /\ [][NextEval]_vars

(***************************************************************************)
(* Properties of the game lifecycle (checked under Spec)                   *)
(***************************************************************************)
Stored == DOMAIN store
\* the step sends a response
Responded == Len(responses') = Len(responses) + 1
NewResp == responses'[Len(responses')]
\* the step answers a play request in the step that reads the table
AnsweredOnArrival == Responded /\ pc' = pc /\ NewResp.kind # "Created"
\* the threads that go on to the UPDATE in this step
NewlyLoaded == {t \in Threads : pc[t] = "idle" /\ pc'[t] = "loaded"}
\* the positions of the evaluated guesses on game g in the response log
EvaluatedOn(g) ==
    {i \in 1..Len(responses) :
        responses[i].kind = "Evaluated" /\ responses[i].game_id = g}

\* C1: the stored solved flag is monotonic: a game stored as solved is stored
\* as solved after every step, whatever requests interleave.
C1_SolvedMonotonic ==
    [][\A g \in Stored : store[g].solved => store'[g].solved]_vars

\* C2: no lost update: the stored goes of every game equals the number of
\* requests on it that performed the UPDATE (0 for a fresh game), in every
\* interleaving.
C2_NoLostUpdate ==
    \A g \in Stored : store[g].goes = Cardinality(EvaluatedOn(g))

\* two requests that both read goes = 0 have both updated; 2 is stored
C2_Witness ==
    \E g \in Stored : \E i, j \in EvaluatedOn(g) :
        /\ i # j
        /\ responses[i].body.goes = 1
        /\ responses[j].body.goes = 1
        /\ store[g].goes = 2

\* C3: once a game is stored as solved, no step changes its stored goes or
\* solved flag, whatever requests interleave.
C3_SolvedFrozen ==
    [][\A g \in Stored :
        store[g].solved =>
            /\ store'[g].goes = store[g].goes
            /\ store'[g].solved = store[g].solved]_vars

\* C4: every stored game with solved = true has goes >= 1.
C4_SolvedHasAttempt ==
    \A g \in Stored : store[g].solved => store[g].goes >= 1

\* a game solved by its first guess
C4_Witness ==
    \E g \in Stored : store[g].solved /\ store[g].goes = 1

\* C5: a play request that reads a solved game writes nothing and answers
\* solved = true, the secret word, the stored goes and an empty evaluation,
\* for every guess text, in or out of the vocabulary; no such request goes
\* on to the UPDATE.  The answer depends on the stored game and the guess
\* only, so repeating the request repeats the answer.
C5_SolvedIdempotent ==
    [][/\ \A t \in NewlyLoaded : ~store[req'[t].game_id].solved
       /\ (/\ AnsweredOnArrival
           /\ NewResp.game_id \in Stored
           /\ store[NewResp.game_id].solved)
          => /\ store' = store
             /\ NewResp.kind = "Solved"
             /\ NewResp.status = 200
             /\ NewResp.body =
                    [solved     |-> TRUE,
                     answer     |-> Some(store[NewResp.game_id].word),
                     guess      |-> NewResp.guess,
                     goes       |-> store[NewResp.game_id].goes,
                     evaluation |-> <<>>]]_vars

\* a text outside the vocabulary sent twice to a solved game, answered alike
C5_Witness ==
    /\ Len(responses) >= 2
    /\ LET r == responses[Len(responses)]
           q == responses[Len(responses) - 1]
       IN /\ r.kind = "Solved"
          /\ r.guess \notin words
          /\ q = r
          /\ store[r.game_id].solved
          /\ store[r.game_id].goes = r.body.goes

\* C6: a play request on a stored, unsolved game with a guess outside the
\* vocabulary is answered InvalidGuess (400) and the whole table is unchanged;
\* no such request goes on to the UPDATE.
C6_InvalidGuessRejected ==
    [][/\ \A t \in NewlyLoaded : req'[t].guess \in words
       /\ (/\ AnsweredOnArrival
           /\ NewResp.game_id \in Stored
           /\ ~store[NewResp.game_id].solved
           /\ NewResp.guess \notin words)
          => /\ store' = store
             /\ NewResp.kind = "InvalidGuess"
             /\ NewResp.status = 400]_vars

\* an invalid guess just rejected on a game with one counted attempt
C6_Witness ==
    /\ Len(responses) >= 2
    /\ LET r == responses[Len(responses)]
           q == responses[Len(responses) - 1]
       IN /\ r.kind = "InvalidGuess"
          /\ q.kind = "Evaluated"
          /\ q.game_id = r.game_id
          /\ ~store[r.game_id].solved
          /\ store[r.game_id].goes = 1

\* C7: a play request whose game_id is not stored is answered NotFound
\* (404, neither 400 nor 200) for every guess text, and the table is
\* unchanged; no such request goes on to the UPDATE.
C7_NotFound ==
    [][/\ \A t \in NewlyLoaded : req'[t].game_id \in Stored
       /\ (AnsweredOnArrival /\ NewResp.game_id \notin Stored)
          => /\ store' = store
             /\ NewResp.kind = "NotFound"
             /\ NewResp.status = 404
             /\ NewResp.status \notin {200, 400}]_vars

\* an unknown game_id asked with a valid and with an invalid guess, while
\* another game is stored
C7_Witness ==
    /\ Stored # {}
    /\ \E i, j \in 1..Len(responses) :
        /\ responses[i].kind = "NotFound"
        /\ responses[j].kind = "NotFound"
        /\ responses[i].guess \in words
        /\ responses[j].guess \notin words
        /\ responses[i].game_id \notin Stored
        /\ responses[j].game_id \notin Stored

\* C8: a guess whose length differs from the secret's, sent to a stored,
\* unsolved game, is answered InvalidGuess with the table unchanged;
\* evaluate_guess only ever runs on a guess and a secret of equal length,
\* and no request ends in a panic.
C8_LengthChecked ==
    [][/\ \A t \in NewlyLoaded : Len(req'[t].guess) = Len(game'[t].word)
       /\ \A i \in 1..Len(responses') : responses'[i].kind # "Panic"
       /\ (/\ AnsweredOnArrival
           /\ NewResp.game_id \in Stored
           /\ ~store[NewResp.game_id].solved
           /\ Len(NewResp.guess) # Len(store[NewResp.game_id].word))
          => /\ store' = store
             /\ NewResp.kind = "InvalidGuess"]_vars

\* a longer and a shorter text both rejected on a stored, unsolved game
C8_Witness ==
    \E i, j \in 1..Len(responses) :
        /\ responses[i].kind = "InvalidGuess"
        /\ responses[j].kind = "InvalidGuess"
        /\ responses[i].game_id = responses[j].game_id
        /\ ~store[responses[i].game_id].solved
        /\ Len(responses[i].guess) > Len(store[responses[i].game_id].word)
        /\ Len(responses[j].guess) < Len(store[responses[j].game_id].word)

(***************************************************************************)
(* Properties of the match engine (checked under SpecEval)                 *)
(***************************************************************************)
Positions == 1..Len(guessIn)
Running == phase[1] \in {"pass1", "pass2", "done"}
\* guess positions holding c that are classified Perfect or Partial
Claimed(c) ==
    {i \in Positions :
        guessIn[i] = c /\ ev.evaluation[i].match_type \in {"Perfect", "Partial"}}
Occurrences(w, c) == Cardinality({j \in 1..Len(w) : w[j] = c})
TheResult == CHOOSE a \in result : TRUE

\* C9: for every letter c, at every point of evaluate_guess and in its
\* result, the guess positions holding c classified Perfect or Partial are at
\* most as many as the occurrences of c in the secret.
C9_NoOverCount ==
    Running =>
        /\ \A c \in Letters :
            Cardinality(Claimed(c)) <= Occurrences(secret, c)
        /\ phase[1] = "done" => TheResult.evaluation = ev.evaluation

\* a letter held by more guess positions than the secret has, one of them
\* Partial and one left None
C9_Witness ==
    /\ phase[1] = "done"
    /\ \E c \in Letters :
        /\ Occurrences(guessIn, c) > Occurrences(secret, c)
        /\ Cardinality(Claimed(c)) = Occurrences(secret, c)
        /\ \E i, j \in Positions :
            /\ guessIn[i] = c
            /\ guessIn[j] = c
            /\ TheResult.evaluation[i].match_type = "Partial"
            /\ TheResult.evaluation[j].match_type = "None"

\* C10: from the end of pass 1 on, through every step of pass 2 and in the
\* result, position i is Perfect exactly when guess[i] = secret[i].
C10_ExactIffEqual ==
    phase[1] \in {"pass2", "done"} =>
        /\ \A i \in Positions :
            (ev.evaluation[i].match_type = "Perfect") <=> (guessIn[i] = secret[i])
        /\ phase[1] = "done" =>
            \A i \in Positions :
                (TheResult.evaluation[i].match_type = "Perfect")
                    <=> (guessIn[i] = secret[i])

\* a letter Perfect at one position and Partial at another
C10_Witness ==
    /\ phase[1] = "done"
    /\ \E i, j \in Positions :
        /\ guessIn[i] = guessIn[j]
        /\ TheResult.evaluation[i].match_type = "Perfect"
        /\ TheResult.evaluation[j].match_type = "Partial"

\* the match types of an evaluation, in order
Types(evaluation) == [i \in 1..Len(evaluation) |-> evaluation[i].match_type]
OverLetters(w) == \A i \in 1..Len(w) : w[i] \in Letters

\* C11: the solved field of the result is true exactly when the guess equals
\* the secret as a whole, and, the two being of equal length, exactly when
\* every position is classified Perfect.
C11_SolvedIffEqual ==
    phase[1] = "done" =>
        /\ TheResult.solved <=> (guessIn = secret)
        /\ TheResult.solved
            <=> (\A i \in Positions : TheResult.evaluation[i].match_type = "Perfect")

\* a solving guess of two or more characters
C11_Witness ==
    /\ phase[1] = "done"
    /\ OverLetters(secret)
    /\ Len(guessIn) >= 2
    /\ TheResult.solved
    /\ \A i \in Positions : TheResult.evaluation[i].match_type = "Perfect"

\* the reference Wordle classification of guess position i against secret w
RefClass(w, g, i) ==
    IF g[i] = w[i] THEN "Perfect"
    ELSE LET c == g[i]
             earlier == Cardinality({j \in 1..(i - 1) : g[j] = c /\ g[j] # w[j]})
             exact == Cardinality({j \in 1..Len(g) : g[j] = c /\ w[j] = c})
         IN IF earlier < Occurrences(w, c) - exact THEN "Partial" ELSE "None"

\* the match types evaluate_guess returns for guess g against secret w
TypesOf(w, g) == Types(evaluate_guess(Game(w, 0, FALSE), g).answer.evaluation)

\* two rows of the test table
ScenariosAgree ==
    /\ TypesOf(<<"l", "l", "a", "m", "a">>, <<"a", "l", "l", "a", "n">>)
        = <<"Partial", "Perfect", "Partial", "Partial", "None">>
    /\ TypesOf(<<"m", "o", "r", "a", "l">>, <<"v", "e", "g", "a", "n">>)
        = <<"None", "None", "None", "Perfect", "None">>

\* C12: for every secret and guess of equal length over letters the result of
\* evaluate_guess is the reference classification at every position, and the
\* rows llama / allan and moral / vegan of the test table come out as listed.
C12_ReferenceClassification ==
    /\ (phase[1] = "done" /\ OverLetters(secret) /\ OverLetters(guessIn)) =>
            \A i \in Positions :
                TheResult.evaluation[i].match_type = RefClass(secret, guessIn, i)
    /\ phase[1] = "done" => ScenariosAgree

\* over letters: a letter Partial at an earlier position and None at a later one
C12_Witness ==
    /\ phase[1] = "done"
    /\ OverLetters(secret)
    /\ OverLetters(guessIn)
    /\ \E i, j \in Positions :
        /\ i < j
        /\ guessIn[i] = guessIn[j]
        /\ TheResult.evaluation[i].match_type = "Partial"
        /\ TheResult.evaluation[j].match_type = "None"

Holding(c) == {i \in Positions : guessIn[i] = c}
SecretAt(c) == {j \in 1..Len(secret) : secret[j] = c}
TypeAt(i) == TheResult.evaluation[i].match_type

\* C16: a letter c that occurs once in the secret and twice or more in the
\* guess is classified non-None at exactly one guess position: the position
\* where the secret holds c, as Perfect, if the guess holds c there, and
\* otherwise the earliest guess position holding c, as Partial.
C16_SingleOccurrence ==
    phase[1] = "done" =>
        \A c \in Letters :
            (Cardinality(SecretAt(c)) = 1 /\ Cardinality(Holding(c)) >= 2) =>
                LET p == CHOOSE j \in SecretAt(c) : TRUE
                    first == CHOOSE i \in Holding(c) : \A k \in Holding(c) : i <= k
                IN /\ Cardinality({i \in Holding(c) : TypeAt(i) # "None"}) = 1
                   /\ IF p \in Holding(c)
                      THEN /\ TypeAt(p) = "Perfect"
                           /\ \A i \in Holding(c) \ {p} : TypeAt(i) = "None"
                      ELSE /\ TypeAt(first) = "Partial"
                           /\ \A i \in Holding(c) \ {first} : TypeAt(i) = "None"

\* the single occurrence is matched exactly by a later guess position, and an
\* earlier guess position holding the letter is None
C16_Witness ==
    /\ phase[1] = "done"
    /\ OverLetters(secret)
    /\ \E c \in Letters :
        /\ Cardinality(SecretAt(c)) = 1
        /\ \E i, p \in Holding(c) :
            /\ i < p
            /\ TypeAt(p) = "Perfect"
            /\ TypeAt(i) = "None"

Min(a, b) == IF a <= b THEN a ELSE b

\* C17: for every letter c the guess positions holding c classified Perfect
\* or Partial are exactly min(occurrences of c in the guess, occurrences of c
\* in the secret): no claimable occurrence is left unclaimed.
C17_AllClaimed ==
    phase[1] = "done" =>
        \A c \in Letters :
            Cardinality({i \in Holding(c) : TypeAt(i) # "None"})
                = Min(Occurrences(guessIn, c), Occurrences(secret, c))

\* over letters: both letters are in both words, each letter of the guess is
\* claimed as often as the secret allows, and one position is left None
C17_Witness ==
    /\ phase[1] = "done"
    /\ OverLetters(secret)
    /\ OverLetters(guessIn)
    /\ \A c \in Letters : Occurrences(secret, c) >= 1 /\ Occurrences(guessIn, c) >= 1
    /\ \E i \in Positions : TypeAt(i) = "None"
    /\ \E i \in Positions : TypeAt(i) = "Partial"

(***************************************************************************)
(* The same two passes with a claimed marker per secret position instead   *)
(* of the sentinel overwrite; the secret itself is never written.          *)
(***************************************************************************)
MarkInit(w, g) ==
    [guess_chars_used |-> [i \in 1..Len(g) |-> FALSE],
     claimed          |-> [j \in 1..Len(w) |-> FALSE],
     evaluation       |-> [i \in 1..Len(g) |-> CharMatch(i - 1, g[i], "None")]]

MarkPass1Step(m, w, g, i) ==
    IF w[i] = g[i]
    THEN [m EXCEPT !.evaluation[i] = CharMatch(i - 1, g[i], "Perfect"),
                   !.claimed[i] = TRUE,
                   !.guess_chars_used[i] = TRUE]
    ELSE m

MarkPass2Step(m, w, g, i) ==
    IF m.guess_chars_used[i] THEN m
    ELSE LET free == {j \in 1..Len(w) : ~m.claimed[j] /\ w[j] = g[i]}
         IN IF free # {}
            THEN LET word_index == CHOOSE j \in free : \A k \in free : j <= k
                 IN [m EXCEPT !.evaluation[i] = CharMatch(i - 1, g[i], "Partial"),
                              !.claimed[word_index] = TRUE,
                              !.guess_chars_used[i] = TRUE]
            ELSE m

\* the marker state after the first n positions of pass 1
RECURSIVE MarkAfterPass1(_, _, _)
MarkAfterPass1(w, g, n) ==
    IF n = 0 THEN MarkInit(w, g)
    ELSE MarkPass1Step(MarkAfterPass1(w, g, n - 1), w, g, n)

\* the marker state after pass 1 and the first n positions of pass 2
RECURSIVE MarkAfterPass2(_, _, _)
MarkAfterPass2(w, g, n) ==
    IF n = 0 THEN MarkAfterPass1(w, g, Len(g))
    ELSE MarkPass2Step(MarkAfterPass2(w, g, n - 1), w, g, n)

\* the marker run brought to the point evaluate_guess has reached
MarkNow ==
    IF phase[1] = "pass1" THEN MarkAfterPass1(secret, guessIn, phase[2] - 1)
    ELSE IF phase[1] = "pass2" THEN MarkAfterPass2(secret, guessIn, phase[2] - 1)
    ELSE MarkAfterPass2(secret, guessIn, Len(guessIn))

\* the two runs agree on the classifications so far and on the positions used
RunsAgree ==
    /\ ev.evaluation = MarkNow.evaluation
    /\ ev.guess_chars_used = MarkNow.guess_chars_used
    /\ phase[1] = "done" => TheResult.evaluation = MarkNow.evaluation

Log == 1..Len(responses)

\* C13: a play response carries the secret word exactly when its solved field
\* is true, and then it is the word of that game; the error responses carry
\* no word; the create response carries the game identifier and nothing else.
C13_SecretOnlyWhenSolved ==
    \A i \in Log :
        LET r == responses[i]
        IN /\ r.kind \in {"Evaluated", "Solved"} =>
                /\ (r.body.answer # None) <=> r.body.solved
                /\ r.body.answer \subseteq {store[r.game_id].word}
           /\ r.kind \in {"NotFound", "InvalidGuess", "Panic", "StoragePanic"} =>
                r.body = None
           /\ r.kind = "Created" =>
                /\ DOMAIN r.body = {"game_id"}
                /\ r.body.game_id = r.game_id

\* a game created, guessed wrong (no word in the response) and then solved
\* (the word in the response)
C13_Witness ==
    \E i, j, k \in Log :
        /\ i < j
        /\ j < k
        /\ responses[i].kind = "Created"
        /\ responses[j].kind = "Evaluated"
        /\ responses[j].game_id = responses[i].game_id
        /\ ~responses[j].body.solved
        /\ responses[j].body.answer = None
        /\ responses[k].kind = "Evaluated"
        /\ responses[k].game_id = responses[i].game_id
        /\ responses[k].body.solved
        /\ responses[k].body.answer = Some(store[responses[i].game_id].word)

\* C15: a request whose UPDATE fails is retried from the SELECT and, the
\* retries used up, is answered with a transient failure: a request leaves
\* the UPDATE step without a write only with that answer, never by a panic.
C15_ConflictRetried ==
    [][\A t \in Threads :
        (pc[t] = "loaded" /\ pc'[t] = "idle" /\ store' = store) =>
            /\ Responded
            /\ NewResp.kind = "TransientFailure"]_vars

\* C19: a step changes a stored game only as the UPDATE of an evaluated guess
\* on that game's identifier, and then only its goes and solved; no game is
\* removed, no word or client is rewritten, and a create changes no stored game.
C19_Frame ==
    [][/\ Stored \subseteq DOMAIN store'
       /\ \A g \in Stored :
            /\ store'[g].word = store[g].word
            /\ store'[g].client = store[g].client
            /\ store'[g] # store[g] =>
                /\ Responded
                /\ NewResp.kind = "Evaluated"
                /\ NewResp.game_id = g
       /\ (Responded /\ NewResp.kind = "Created") =>
            \A g \in Stored : store'[g] = store[g]]_vars

\* two games stored, a guess just evaluated on one of them, the other untouched
C19_Witness ==
    /\ Len(responses) >= 1
    /\ responses[Len(responses)].kind = "Evaluated"
    /\ \E g, h \in Stored :
        /\ g # h
        /\ responses[Len(responses)].game_id = g
        /\ store[g].goes = 1
        /\ store[h] = NewGameRow(store[h].client, store[h].word)

\* C20: the goes and solved of an evaluated response are the stored goes and
\* solved of the game right after that request's UPDATE.
C20_ResponseMatchesStore ==
    [][(Responded /\ NewResp.kind = "Evaluated") =>
        /\ NewResp.body.goes = store'[NewResp.game_id].goes
        /\ NewResp.body.solved = store'[NewResp.game_id].solved]_vars

(***************************************************************************)
(* The shape of the evaluation (checked under SpecEval)                    *)
(***************************************************************************)
\* C14: the evaluation returned for a guess has one entry per character of
\* the guess, the k-th entry (from 0) has index k and the k-th character of
\* the guess, at every step of the passes and in the result, so it is empty
\* only for an empty guess; the already-solved answer has an empty evaluation.
C14_EvaluationShape ==
    Running =>
        /\ Len(ev.evaluation) = Len(guessIn)
        /\ \A k \in 0..(Len(guessIn) - 1) :
            /\ ev.evaluation[k + 1].index = k
            /\ ev.evaluation[k + 1].character = guessIn[k + 1]
        /\ phase[1] = "done" =>
            /\ TheResult.evaluation = ev.evaluation
            /\ TheResult.guess = guessIn
            /\ (TheResult.evaluation = <<>>) <=> (guessIn = <<>>)
        /\ SolvedAnswer(EvalGame, guessIn).evaluation = <<>>

\* a result holding a None, a Partial and a Perfect entry, each at its index
C14_Witness ==
    /\ phase[1] = "done"
    /\ \E i, j, k \in Positions :
        /\ TypeAt(i) = "None"
        /\ TypeAt(j) = "Partial"
        /\ TypeAt(k) = "Perfect"
        /\ TheResult.evaluation[i].index = i - 1
        /\ TheResult.evaluation[j].index = j - 1
        /\ TheResult.evaluation[k].index = k - 1

====
